---- MODULE Spec2Model ----
(***************************************************************************)
(* Share authorization protocol of go-s3-sharing: the share engine         *)
(* (internal/service/share_service.go), the Redis cache adapter, the       *)
(* object store adapter and the HTTP handlers                              *)
(* (internal/transport/http/handler.go).                                   *)
(*                                                                         *)
(* Strings are sequences of one-character strings, so that splitting,      *)
(* joining, trimming and substring tests are computed as the code          *)
(* computes them.  Time is counted in ticks since the Unix epoch, UTC;     *)
(* a day has TicksPerDay ticks.                                            *)
(***************************************************************************)
EXTENDS Integers, Sequences, FiniteSets, TLC

(***************************************************************************)
(* Bounds of the model.                                                    *)
(***************************************************************************)
\* resolution of the clock: ticks in one calendar day
TicksPerDay == 2
\* number of ticks the clock may advance after the start of the run
MaxTicks == 2
\* the longest object path, in characters, of the path validation runs
MaxPathLen == 4

(***************************************************************************)
(* Strings.                                                                *)
(***************************************************************************)
SLASH == "/"

RECURSIVE Join(_, _)
\* strings.Join(parts, sep)
Join(parts, sep) ==
    IF parts = <<>> THEN <<>>
    ELSE IF Len(parts) = 1 THEN parts[1]
    ELSE parts[1] \o sep \o Join(Tail(parts), sep)

RECURSIVE SplitFrom(_, _, _)
\* the fields of s after the field cur that is being read
SplitFrom(s, sep, cur) ==
    IF s = <<>> THEN <<cur>>
    ELSE IF Head(s) = sep THEN <<cur>> \o SplitFrom(Tail(s), sep, <<>>)
    ELSE SplitFrom(Tail(s), sep, Append(cur, Head(s)))

\* strings.Split(s, sep) for a one-character separator
Split(s, sep) == SplitFrom(s, sep, <<>>)

RECURSIVE TrimLeft(_, _)
TrimLeft(s, c) ==
    IF s # <<>> /\ Head(s) = c THEN TrimLeft(Tail(s), c) ELSE s

RECURSIVE TrimRight(_, _)
TrimRight(s, c) ==
    IF s # <<>> /\ s[Len(s)] = c THEN TrimRight(SubSeq(s, 1, Len(s) - 1), c) ELSE s

\* strings.Trim(s, cutset) for a one-character cutset
Trim(s, c) == TrimRight(TrimLeft(s, c), c)

\* strings.HasPrefix(s, prefix)
\* HasPrefix that finds no prefix
HasPrefixNever(s, prefix) == FALSE

HasPrefix(s, prefix) ==
    Len(s) >= Len(prefix) /\ SubSeq(s, 1, Len(prefix)) = prefix

\* strings.Contains(s, sub)
Contains(s, sub) ==
    \E i \in 1..(Len(s) - Len(sub) + 1) : SubSeq(s, i, i + Len(sub) - 1) = sub

DOTDOT == <<".", ".">>
DOT == <<".">>

(***************************************************************************)
(* path.Clean of the Go standard library, element by element.              *)
(***************************************************************************)
RECURSIVE CleanElems(_, _, _)
\* out: the elements kept so far; a ".." that cannot back up is kept only
\* in an unrooted path
CleanElems(elems, rooted, out) ==
    IF elems = <<>> THEN out
    ELSE LET e == Head(elems)
             rest == Tail(elems)
         IN IF e = <<>> \/ e = DOT THEN CleanElems(rest, rooted, out)
            ELSE IF e = DOTDOT
                 THEN IF out # <<>> /\ out[Len(out)] # DOTDOT
                      THEN CleanElems(rest, rooted, SubSeq(out, 1, Len(out) - 1))
                      ELSE IF rooted THEN CleanElems(rest, rooted, out)
                           ELSE CleanElems(rest, rooted, Append(out, e))
                 ELSE CleanElems(rest, rooted, Append(out, e))

\* path.Clean(p)
Clean(p) ==
    IF p = <<>> THEN DOT
    ELSE LET rooted == Head(p) = SLASH
             out == CleanElems(Split(p, SLASH), rooted, <<>>)
         IN IF rooted THEN <<SLASH>> \o Join(out, <<SLASH>>)
            ELSE IF out = <<>> THEN DOT
            ELSE Join(out, <<SLASH>>)

(***************************************************************************)
(* Numbers in text.                                                        *)
(***************************************************************************)
Digits == <<"0", "1", "2", "3", "4", "5", "6", "7", "8", "9">>
HexDigits == Digits \o <<"a", "b", "c", "d", "e", "f">>

IsDigit(c) == \E i \in 1..Len(Digits) : Digits[i] = c
DigitVal(c) == (CHOOSE i \in 1..Len(Digits) : Digits[i] = c) - 1

\* a number below one hundred in two decimal digits, as the layout
\* elements "06", "01" and "02" of time.Format print it
TwoDigit(n) == <<Digits[(n \div 10) + 1], Digits[(n % 10) + 1]>>

RECURSIVE Hex(_)
\* the verb %x of fmt.Sprintf applied to a non-negative integer
Hex(n) ==
    IF n < 16 THEN <<HexDigits[n + 1]>>
    ELSE Append(Hex(n \div 16), HexDigits[(n % 16) + 1])

(***************************************************************************)
(* The calendar of package time, UTC (proleptic Gregorian).                *)
(***************************************************************************)
IsLeap(y) == (y % 4 = 0) /\ ((y % 100 # 0) \/ (y % 400 = 0))

DaysIn(m, y) ==
    IF m = 2 THEN (IF IsLeap(y) THEN 29 ELSE 28)
    ELSE IF m \in {4, 6, 9, 11} THEN 30 ELSE 31

\* days from 1970-01-01 to the civil date y-m-d
DaysFromCivil(y, m, d) ==
    LET yy == IF m <= 2 THEN y - 1 ELSE y
        era == yy \div 400
        yoe == yy - era * 400
        mp == IF m > 2 THEN m - 3 ELSE m + 9
        doy == (153 * mp + 2) \div 5 + d - 1
        doe == yoe * 365 + yoe \div 4 - yoe \div 100 + doy
    IN era * 146097 + doe - 719468

\* the civil date <<y, m, d>> of the day z days after 1970-01-01
CivilFromDays(z) ==
    LET zz == z + 719468
        era == zz \div 146097
        doe == zz - era * 146097
        yoe == (doe - doe \div 1460 + doe \div 36524 - doe \div 146096) \div 365
        doy == doe - (365 * yoe + yoe \div 4 - yoe \div 100)
        mp == (5 * doy + 2) \div 153
        d == doy - (153 * mp + 2) \div 5 + 1
        m == IF mp < 10 THEN mp + 3 ELSE mp - 9
        y == yoe + era * 400
    IN <<IF m <= 2 THEN y + 1 ELSE y, m, d>>

\* seconds in one tick of the clock
SecondsPerTick == 86400 \div TicksPerDay

\* t.Unix()
Unix(t) == t * SecondsPerTick

\* the instant at which the run starts: 2025-12-30T00:00:00Z
StartTime == DaysFromCivil(2025, 12, 30) * TicksPerDay

\* t.Format(layout) for the layouts "06/01/02" and "06-01-02"
FormatDate(t, sep) ==
    LET c == CivilFromDays(t \div TicksPerDay)
    IN TwoDigit(c[1] % 100) \o <<sep>> \o TwoDigit(c[2]) \o <<sep>> \o TwoDigit(c[3])

\* time.Parse("06-01-02", s): [ok, t], ok = FALSE when s does not parse
ParseLayout(s) ==
    IF /\ Len(s) = 8
       /\ \A i \in {1, 2, 4, 5, 7, 8} : IsDigit(s[i])
       /\ s[3] = "-" /\ s[6] = "-"
    THEN LET yy == 10 * DigitVal(s[1]) + DigitVal(s[2])
             y == IF yy >= 69 THEN 1900 + yy ELSE 2000 + yy
             m == 10 * DigitVal(s[4]) + DigitVal(s[5])
             d == 10 * DigitVal(s[7]) + DigitVal(s[8])
         IN IF m \in 1..12 /\ d >= 1 /\ d <= DaysIn(m, y)
            THEN [ok |-> TRUE, t |-> DaysFromCivil(y, m, d) * TicksPerDay]
            ELSE [ok |-> FALSE, t |-> 0]
    ELSE [ok |-> FALSE, t |-> 0]

(***************************************************************************)
(* Errors.  An error is the chain of its messages, outermost first, so     *)
(* that fmt.Errorf("...: %w", err) prepends a message and err == target    *)
(* is equality of chains.                                                  *)
(***************************************************************************)
NoErr == <<>>
ErrNotFound == <<"not found">>
ErrUnauthorized == <<"unauthorized">>
ErrExpired == <<"expired">>
ErrInvalidPath == <<"invalid path">>
ErrInvalidDate == <<"invalid date">>

\* Wrap that loses the error
WrapDropped(msg, err) == NoErr

\* fmt.Errorf(msg + ": %w", err)
Wrap(msg, err) == <<msg>> \o err

\* failures of the backing services themselves
S3NoSuchKey == <<"NoSuchKey">>
S3Unavailable == <<"s3 unavailable">>
RedisUnavailable == <<"redis unavailable">>

(***************************************************************************)
(* Secret cache adapter (RedisService) over a store with expiring keys.    *)
(* The store is a function from the keys present to [value, expireAt].     *)
(***************************************************************************)
EmptyCache == [k \in {} |-> 0]

\* LiveKeys without the expiry of keys
LiveKeysForever(c, t) == DOMAIN c

\* the keys the store still holds at time t
LiveKeys(c, t) == {k \in DOMAIN c : c[k].expireAt > t}

\* CacheSet that writes the key even when it reports a failure
CacheSetAppliedOnFailure(c, t, key, value, expiration, fail) ==
    [err |-> IF fail THEN Wrap("failed to set key in Redis", RedisUnavailable) ELSE NoErr,
     cache |-> [k \in DOMAIN c \cup {key} |->
                   IF k = key
                   THEN [value |-> value, expireAt |-> t + expiration]
                   ELSE c[k]]]

\* CacheSet that leaves a key already present as it is
CacheSetIfAbsent(c, t, key, value, expiration, fail) ==
    IF fail
    THEN [err |-> Wrap("failed to set key in Redis", RedisUnavailable), cache |-> c]
    ELSE [err |-> NoErr,
          cache |-> [k \in DOMAIN c \cup {key} |->
                        IF k \in DOMAIN c
                        THEN c[k]
                        ELSE [value |-> value, expireAt |-> t + expiration]]]

\* RedisService.Set: [err, cache]
CacheSet(c, t, key, value, expiration, fail) ==
    IF fail
    THEN [err |-> Wrap("failed to set key in Redis", RedisUnavailable), cache |-> c]
    ELSE [err |-> NoErr,
          cache |-> [k \in DOMAIN c \cup {key} |->
                        IF k = key
                        THEN [value |-> value, expireAt |-> t + expiration]
                        ELSE c[k]]]

\* CacheGet that reports a missing key as a failure of the store
CacheGetNilAsFailure(c, t, key, fail) ==
    IF fail \/ key \notin DOMAIN c \/ c[key].expireAt <= t
    THEN [err |-> Wrap("failed to get key from Redis", RedisUnavailable), val |-> <<>>,
          cache |-> c]
    ELSE [err |-> NoErr, val |-> c[key].value, cache |-> c]

\* CacheGet that reports a failure of the store as a missing key
CacheGetFailureAsMiss(c, t, key, fail) ==
    IF fail \/ key \notin LiveKeys(c, t)
    THEN [err |-> ErrNotFound, val |-> <<>>, cache |-> c]
    ELSE [err |-> NoErr, val |-> c[key].value, cache |-> c]

\* CacheGet that removes the key it reads
CacheGetDel(c, t, key, fail) ==
    IF fail
    THEN [err |-> Wrap("failed to get key from Redis", RedisUnavailable), val |-> <<>>,
          cache |-> c]
    ELSE IF key \notin LiveKeys(c, t)
    THEN [err |-> ErrNotFound, val |-> <<>>, cache |-> c]
    ELSE [err |-> NoErr, val |-> c[key].value,
          cache |-> [k \in DOMAIN c \ {key} |-> c[k]]]

\* RedisService.Get: [err, val, cache]; a read leaves the store as it is
CacheGet(c, t, key, fail) ==
    IF fail
    THEN [err |-> Wrap("failed to get key from Redis", RedisUnavailable), val |-> <<>>,
          cache |-> c]
    ELSE IF key \notin LiveKeys(c, t)
    THEN [err |-> ErrNotFound, val |-> <<>>, cache |-> c]
    ELSE [err |-> NoErr, val |-> c[key].value, cache |-> c]

\* RedisService.Delete: [err, cache]
CacheDelete(c, key, fail) ==
    IF fail
    THEN [err |-> Wrap("failed to delete key from Redis", RedisUnavailable), cache |-> c]
    ELSE [err |-> NoErr, cache |-> [k \in DOMAIN c \ {key} |-> c[k]]]

NoMeta == [contentType |-> "", size |-> 0]
NoReader == [body |-> <<>>, contentType |-> "", size |-> 0]

(***************************************************************************)
(* Object store adapter (S3Service).  The bucket is a function from the    *)
(* keys of its objects to [contentType, size].                             *)
(***************************************************************************)
\* HeadObject that answers for a key the bucket does not hold
HeadObjectAnyKey(objs, key, fail) ==
    IF fail
    THEN [err |-> Wrap("failed to head object from S3", S3Unavailable), meta |-> NoMeta]
    ELSE [err |-> NoErr, meta |-> NoMeta]

\* S3Service.HeadObject: [err, meta]
HeadObject(objs, key, fail) ==
    IF fail
    THEN [err |-> Wrap("failed to head object from S3", S3Unavailable), meta |-> NoMeta]
    ELSE IF key \notin DOMAIN objs
    THEN [err |-> Wrap("failed to head object from S3", S3NoSuchKey), meta |-> NoMeta]
    ELSE [err |-> NoErr, meta |-> objs[key]]

\* StorageGetObject that returns an empty reader for a key the bucket does
\* not hold
StorageGetObjectAnyKey(objs, key, fail) ==
    IF fail
    THEN [err |-> Wrap("failed to get object from S3", S3Unavailable), reader |-> NoReader]
    ELSE [err |-> NoErr,
          reader |-> IF key \in DOMAIN objs
                     THEN [body |-> key,
                           contentType |-> objs[key].contentType,
                           size |-> objs[key].size]
                     ELSE [body |-> <<>>, contentType |-> "application/octet-stream",
                           size |-> 0]]

\* S3Service.GetObject: [err, reader]; the reader carries the object's key
\* in place of its bytes
StorageGetObject(objs, key, fail) ==
    IF fail
    THEN [err |-> Wrap("failed to get object from S3", S3Unavailable), reader |-> NoReader]
    ELSE IF key \notin DOMAIN objs
    THEN [err |-> Wrap("failed to get object from S3", S3NoSuchKey), reader |-> NoReader]
    ELSE [err |-> NoErr,
          reader |-> [body |-> key,
                      contentType |-> objs[key].contentType,
                      size |-> objs[key].size]]

(***************************************************************************)
(* Share engine (ShareService).                                            *)
(***************************************************************************)
\* ShareConfig.MaxAgeDays, the default of MAX_AGE_DAYS
MaxAgeDays == 90

\* ShareConfig.BaseURL, one token: the engine only ever prepends it
BaseURL == <<"https://example.com">>

\* ShareService.isValidS3Path
isValidS3Path(s3Path) ==
    LET cleanPath == Clean(s3Path)
    IN IF HasPrefix(cleanPath, <<SLASH>>) \/ Contains(cleanPath, DOTDOT)
       THEN FALSE
       ELSE cleanPath # <<>> /\ cleanPath # DOT

CacheKeyPrefix == <<"i", "m", "a", "g", "e", "-", "a", "u", "t", "h", ":">>

\* generateCacheKey that gives every path the same key
generateCacheKeyShared(s3Path) == CacheKeyPrefix

\* ShareService.generateCacheKey
generateCacheKey(s3Path) == CacheKeyPrefix \o s3Path

SecretPrefix == <<"s", "e", "c", "r", "e", "t", "_">>

\* ShareService.generateSecret
generateSecret(s3Path, expiresAt) ==
    SecretPrefix \o Hex(Len(s3Path) + Unix(expiresAt))

\* ShareService.generateShareURL
generateShareURL(s3Path, expiresAt) ==
    LET dateStr == FormatDate(expiresAt, SLASH)
        secret == generateSecret(s3Path, expiresAt)
    IN BaseURL \o <<SLASH>> \o dateStr \o <<SLASH>> \o secret \o <<SLASH>> \o s3Path

NoResponse == [URL |-> <<>>, ExpiresAt |-> 0, MaxAge |-> 0]

\* ShareService.CreateShare at time t: [err, resp, cache, calls]; calls
\* lists the adapter calls made, in order
CreateShare(c, objs, t, req, headFails, setFails) ==
    IF ~isValidS3Path(req.S3Path)
    THEN [err |-> ErrInvalidPath, resp |-> NoResponse, cache |-> c, calls |-> <<>>]
    ELSE LET head == HeadObject(objs, req.S3Path, headFails)
         IN IF head.err # NoErr
            THEN [err |-> Wrap("object not found", head.err), resp |-> NoResponse,
                  cache |-> c, calls |-> <<"HeadObject">>]
            ELSE LET cacheKey == generateCacheKey(req.S3Path)
                     expiration == req.ExpiresAt - t
                 IN IF expiration <= 0
                    THEN [err |-> <<"expiration time must be in the future">>,
                          resp |-> NoResponse, cache |-> c, calls |-> <<"HeadObject">>]
                    ELSE LET set == CacheSet(c, t, cacheKey, req.Secret, expiration, setFails)
                         IN IF set.err # NoErr
                            THEN [err |-> Wrap("failed to store share in cache", set.err),
                                  resp |-> NoResponse, cache |-> set.cache,
                                  calls |-> <<"HeadObject", "Set">>]
                            ELSE [err |-> NoErr,
                                  resp |-> [URL |-> generateShareURL(req.S3Path, req.ExpiresAt),
                                            ExpiresAt |-> req.ExpiresAt,
                                            MaxAge |-> expiration],
                                  cache |-> set.cache,
                                  calls |-> <<"HeadObject", "Set">>]

\* ValidateShare that accepts every secret
ValidateShareOpen(c, t, s3Path, secret, getFails) ==
    [err |-> NoErr, cache |-> c, calls |-> <<"Get">>]

\* ShareService.ValidateShare at time t: [err, cache, calls]
ValidateShare(c, t, s3Path, secret, getFails) ==
    IF ~isValidS3Path(s3Path)
    THEN [err |-> ErrInvalidPath, cache |-> c, calls |-> <<>>]
    ELSE LET cacheKey == generateCacheKey(s3Path)
             got == CacheGet(c, t, cacheKey, getFails)
         IN IF got.err # NoErr
            THEN IF got.err = ErrNotFound
                 THEN [err |-> ErrUnauthorized, cache |-> got.cache, calls |-> <<"Get">>]
                 ELSE [err |-> Wrap("failed to validate share", got.err),
                       cache |-> got.cache, calls |-> <<"Get">>]
            ELSE IF got.val # secret
                 THEN [err |-> ErrUnauthorized, cache |-> got.cache, calls |-> <<"Get">>]
                 ELSE [err |-> NoErr, cache |-> got.cache, calls |-> <<"Get">>]

\* ShareService.GetObject: [err, reader, calls]
GetObject(objs, s3Path, fetchFails) ==
    IF ~isValidS3Path(s3Path)
    THEN [err |-> ErrInvalidPath, reader |-> NoReader, calls |-> <<>>]
    ELSE LET got == StorageGetObject(objs, s3Path, fetchFails)
         IN IF got.err # NoErr
            THEN [err |-> Wrap("failed to get object", got.err), reader |-> NoReader,
                  calls |-> <<"GetObject">>]
            ELSE [err |-> NoErr, reader |-> got.reader, calls |-> <<"GetObject">>]

(***************************************************************************)
(* HTTP handlers (Handler).  A response is [status, header, body].         *)
(***************************************************************************)
StatusOK == 200
StatusBadRequest == 400
StatusUnauthorized == 401
StatusForbidden == 403
StatusNotFound == 404
StatusMethodNotAllowed == 405
StatusInternalServerError == 500

\* Handler.writeError
writeError(message, statusCode) ==
    [status |-> statusCode,
     header |-> [ContentType |-> "application/json"],
     body |-> [error |-> message, code |-> statusCode, message |-> message]]

\* http.NotFound of the standard library
NotFound ==
    [status |-> StatusNotFound,
     header |-> [ContentType |-> "text/plain; charset=utf-8"],
     body |-> [text |-> "404 page not found"]]

\* After that holds of no instants
AfterNever(t, u) == FALSE

\* After that also holds of equal instants
AfterOrEqual(t, u) == t >= u

\* time.Time.After
After(t, u) == t > u

\* parseDate that accepts every string
parseDateLenient(dateStr) == [ok |-> TRUE, t |-> 0]

\* Handler.parseDate
parseDate(dateStr) == ParseLayout(dateStr)

ApiPrefix == <<"/", "a", "p", "i", "/">>
HealthPath == <<"/", "h", "e", "a", "l", "t", "h">>
ReadyPath == <<"/", "r", "e", "a", "d", "y">>

\* the fields HandleImage extracts from the request path, once the path
\* has at least five segments
ImageParts(urlPath) ==
    LET parts == Split(Trim(urlPath, SLASH), SLASH)
    IN [n |-> Len(parts),
        dateStr |-> IF Len(parts) >= 3 THEN Join(SubSeq(parts, 1, 3), <<"-">>) ELSE <<>>,
        secret |-> IF Len(parts) >= 4 THEN parts[4] ELSE <<>>,
        s3Path |-> IF Len(parts) >= 5
                   THEN Join(SubSeq(parts, 5, Len(parts)), <<SLASH>>) ELSE <<>>]

\* the handles a reader holds open: none for the nil reader
Opened(reader) == IF reader = NoReader THEN 0 ELSE 1

\* Stream that closes the reader only after a complete copy
StreamLeakOnFailure(copyFails) ==
    [complete |-> ~copyFails, closes |-> IF copyFails THEN 0 ELSE 1]

\* the end of HandleImage: io.Copy to the response, then the deferred
\* reader.Close as the handler returns; copyFails is io.Copy failing partway
Stream(copyFails) == [complete |-> ~copyFails, closes |-> 1]

\* Handler.HandleImage at time t: [resp, cache, calls, opens, closes]; opens
\* counts the readers obtained, closes the calls of reader.Close
HandleImage(c, objs, t, urlPath, getFails, fetchFails, copyFails) ==
    IF HasPrefix(urlPath, ApiPrefix) \/ urlPath = HealthPath \/ urlPath = ReadyPath
    THEN [resp |-> NotFound, cache |-> c, calls |-> <<>>, opens |-> 0, closes |-> 0]
    ELSE LET parts == ImageParts(urlPath)
         IN IF parts.n < 5
            THEN [resp |-> NotFound, cache |-> c, calls |-> <<>>, opens |-> 0, closes |-> 0]
            ELSE LET expiresAt == parseDate(parts.dateStr)
                 IN IF ~expiresAt.ok
                    THEN [resp |-> writeError("invalid date format", StatusBadRequest),
                          cache |-> c, calls |-> <<>>, opens |-> 0, closes |-> 0]
                    ELSE IF After(t, expiresAt.t)
                    THEN [resp |-> writeError("link expired", StatusForbidden),
                          cache |-> c, calls |-> <<>>, opens |-> 0, closes |-> 0]
                    ELSE LET v == ValidateShare(c, t, parts.s3Path, parts.secret, getFails)
                         IN IF v.err # NoErr
                            THEN [resp |-> IF v.err = ErrUnauthorized
                                           THEN writeError("unauthorized", StatusUnauthorized)
                                           ELSE IF v.err = ErrInvalidPath
                                           THEN writeError("invalid path", StatusBadRequest)
                                           ELSE writeError("internal error",
                                                           StatusInternalServerError),
                                  cache |-> v.cache, calls |-> v.calls, opens |-> 0,
                                  closes |-> 0]
                            ELSE LET g == GetObject(objs, parts.s3Path, fetchFails)
                                 IN IF g.err # NoErr
                                    THEN [resp |-> writeError("not found", StatusNotFound),
                                          cache |-> v.cache, calls |-> v.calls \o g.calls,
                                          opens |-> Opened(g.reader), closes |-> 0]
                                    ELSE LET st == Stream(copyFails)
                                         IN
                                         [resp |->
                                            [status |-> StatusOK,
                                             header |->
                                               [ContentType |-> g.reader.contentType,
                                                ContentLength |-> g.reader.size,
                                                CacheControl |-> "public, max-age=3600"],
                                             body |-> [bytes |-> g.reader.body,
                                                       complete |-> st.complete]],
                                          cache |-> v.cache, calls |-> v.calls \o g.calls,
                                          opens |-> Opened(g.reader), closes |-> st.closes]

\* the zero time.Time, 0001-01-01T00:00:00Z
ZeroTime == DaysFromCivil(1, 1, 1) * TicksPerDay

\* a decoder that drops the expires_at member
DecodedExpiresAtDropped(body) == ZeroTime

\* CreateShareRequest.ExpiresAt after json.Decode: the instant of the
\* expires_at member, the zero time when the body has no such member
DecodedExpiresAt(body) == IF body.hasExpiresAt THEN body.ExpiresAt ELSE ZeroTime

\* Handler.HandleCreateShare at time t: [resp, cache, calls, err]; body is
\* [decodes, S3Path, Secret, hasExpiresAt, ExpiresAt], decodes = FALSE for a
\* body that is not a JSON CreateShareRequest; err is the engine's error
HandleCreateShare(c, objs, t, method, body, headFails, setFails) ==
    IF method # "POST"
    THEN [resp |-> writeError("method not allowed", StatusMethodNotAllowed),
          cache |-> c, calls |-> <<>>, err |-> NoErr]
    ELSE IF ~body.decodes
    THEN [resp |-> writeError("invalid request body", StatusBadRequest),
          cache |-> c, calls |-> <<>>, err |-> NoErr]
    ELSE IF body.S3Path = <<>>
    THEN [resp |-> writeError("s3_path is required", StatusBadRequest),
          cache |-> c, calls |-> <<>>, err |-> NoErr]
    ELSE IF body.Secret = <<>>
    THEN [resp |-> writeError("secret is required", StatusBadRequest),
          cache |-> c, calls |-> <<>>, err |-> NoErr]
    ELSE LET expiresAt == IF DecodedExpiresAt(body) = ZeroTime
                          THEN t + TicksPerDay
                          ELSE DecodedExpiresAt(body)
             shareReq == [S3Path |-> body.S3Path, Secret |-> body.Secret,
                          ExpiresAt |-> expiresAt]
             r == CreateShare(c, objs, t, shareReq, headFails, setFails)
         IN IF r.err # NoErr
            THEN [resp |-> writeError("failed to create share", StatusInternalServerError),
                  cache |-> r.cache, calls |-> r.calls, err |-> r.err]
            ELSE [resp |-> [status |-> StatusOK,
                            header |-> [ContentType |-> "application/json"],
                            body |-> [url |-> r.resp.URL,
                                      expires_at |-> r.resp.ExpiresAt,
                                      max_age_seconds |-> r.resp.MaxAge * SecondsPerTick]],
                  cache |-> r.cache, calls |-> r.calls, err |-> NoErr]

\* Handler.HandleHealth
HandleHealth ==
    [status |-> StatusOK,
     header |-> [ContentType |-> "application/json"],
     body |-> [status |-> "healthy"]]

\* a readiness check that reports the service as not ready
HandleReadyUnavailable ==
    [status |-> 503,
     header |-> [ContentType |-> "application/json"],
     body |-> [status |-> "unavailable"]]

\* Handler.HandleReady
HandleReady ==
    [status |-> StatusOK,
     header |-> [ContentType |-> "application/json"],
     body |-> [status |-> "ready"]]

SharesPath == ApiPrefix \o <<"s", "h", "a", "r", "e", "s">>

\* the handler the ServeMux of NewServer picks for a request path
Route(urlPath) ==
    IF urlPath = SharesPath THEN "HandleCreateShare"
    ELSE IF urlPath = HealthPath THEN "HandleHealth"
    ELSE IF urlPath = ReadyPath THEN "HandleReady"
    ELSE "HandleImage"

(***************************************************************************)
(* The inputs the environment may present.                                 *)
(***************************************************************************)
PathPhoto == <<"i", "/", "p">>
PathMissing == <<"q">>
PathInner == <<"a", "/", ".", ".", "/", "b">>
PathParent == <<".", ".", "/", "x">>
PathRooted == <<"/", "x">>

Paths == {PathPhoto, PathMissing, PathInner, PathParent, PathRooted}

\* a path has a parent-directory segment
HasParentSegment(path) ==
    \E i \in 1..Len(Split(path, SLASH)) : Split(path, SLASH)[i] = DOTDOT

SecretA == <<"k", "1">>
SecretB == <<"k", "2">>
Secrets == {SecretA, SecretB}

\* the objects of the bucket at the start
Bucket ==
    [k \in {PathPhoto, PathInner} |->
        IF k = PathPhoto THEN [contentType |-> "image/jpeg", size |-> 1024]
        ELSE [contentType |-> "text/plain", size |-> 12]]

\* the keys whose objects other clients of the bucket remove and store
Volatile == {PathPhoto}

\* which backing service is failing while an operation runs; "client" is
\* the receiver of a response going away.  An operation records an outage
\* only when it meets it: when its outcome differs from the outcome with
\* every service up.
Outages == {"none", "s3", "redis", "client"}

\* the expiry instants a caller may ask for at time t
ExpiryChoices(t) == {t - 1, t, t + 1, t + TicksPerDay}

\* the midnights a request path may carry as its date
DateChoices ==
    {(StartTime \div TicksPerDay + d) * TicksPerDay :
        d \in -1..(MaxTicks \div TicksPerDay)}

\* the request path of a share link
LinkPath(date, secret, s3Path) ==
    <<SLASH>> \o FormatDate(date, SLASH) \o <<SLASH>> \o secret \o <<SLASH>> \o s3Path

\* the request path of a URL the engine returned
RequestPath(url) == SubSeq(url, Len(BaseURL) + 1, Len(url))

OtherRequestPaths ==
    {<<"/">>,
     HealthPath,
     ReadyPath,
     ApiPrefix \o <<"x">>,
     ApiPrefix \o <<"1", "/", "2", "/", "3", "/", "4">>,
     <<"/", "n", "o", "/", "r", "t">>,
     <<"/", "2", "5", "/", "1", "2", "/", "3", "0", "/">> \o SecretA,
     <<"/", "2", "5", "/", "1", "3", "/", "0", "1", "/">> \o SecretA \o <<"/">> \o PathPhoto,
     <<"/", "2", "6", "/", "0", "2", "/", "3", "0", "/">> \o SecretA \o <<"/">> \o PathPhoto,
     <<"/", "x", "x", "/", "1", "2", "/", "3", "0", "/">> \o SecretA \o <<"/">> \o PathPhoto,
     <<"/", "2", "5", "/", "1", "/", "3", "0", "/">> \o SecretA \o <<"/">> \o PathPhoto}

\* the requests to /api/shares at time t: a JSON body with every member,
\* a body without expires_at, a body whose expires_at is the zero time, a
\* body without s3_path or without secret, a body that is not JSON, a
\* request that is not a POST
ShareRequests(t) ==
    {[method |-> "POST",
      body |-> [decodes |-> TRUE, S3Path |-> p, Secret |-> s,
                hasExpiresAt |-> TRUE, ExpiresAt |-> e]] :
        p \in Paths, s \in Secrets, e \in ExpiryChoices(t)}
    \cup {[method |-> "POST",
           body |-> [decodes |-> TRUE, S3Path |-> p, Secret |-> s,
                     hasExpiresAt |-> FALSE, ExpiresAt |-> ZeroTime]] :
             p \in Paths \cup {<<>>}, s \in Secrets \cup {<<>>}}
    \cup {[method |-> "POST",
           body |-> [decodes |-> TRUE, S3Path |-> PathPhoto, Secret |-> SecretA,
                     hasExpiresAt |-> TRUE, ExpiresAt |-> ZeroTime]]}
    \cup {[method |-> m,
           body |-> [decodes |-> m = "GET", S3Path |-> PathPhoto, Secret |-> SecretA,
                     hasExpiresAt |-> FALSE, ExpiresAt |-> ZeroTime]] :
             m \in {"POST", "GET"}}

(***************************************************************************)
(* State.                                                                  *)
(***************************************************************************)
VARIABLES
    now,      \* the wall clock
    objects,  \* the bucket: key -> [contentType, size]
    cache,    \* the Redis store: key -> [value, expireAt]
    issued,   \* history: path -> the request and URL of the latest
              \* successful CreateShare, until its expiry or its revocation
    revoked,  \* history: path -> the secret of a share that has been deleted
              \* or has run out, until the next successful CreateShare
    last,     \* the operation whose result is being handed to its caller:
              \* its inputs and what it returned; "idle" between operations
    inflight  \* the calls in flight, statement by statement: the CreateShare
              \* calls of concurrent callers, caller -> [pc, req, expiration,
              \* err, resp, rank], or the GET requests being served,
              \* request -> [pc, url, seen, atFetch, status]

vars == <<now, objects, cache, issued, revoked, last, inflight>>

NoHTTP == [status |-> 0, header |-> [ContentType |-> ""], body |-> [text |-> ""]]

\* the record of one operation
Obs(op, req, down, err, share, resp, calls, opens, closes, before) ==
    [op |-> op, t |-> now, req |-> req, down |-> down, err |-> err, share |-> share,
     resp |-> resp, calls |-> calls, opens |-> opens, closes |-> closes,
     before |-> before]

Idle == [op |-> "idle"]

\* the callers that run CreateShare concurrently, each with a secret of its
\* own
Callers == {"c1", "c2"}
SecretOf(c) == IF c = "c1" THEN SecretA ELSE SecretB

\* a caller that has not called yet
NotCalling ==
    [pc |-> "idle", req |-> [S3Path |-> <<>>, Secret |-> <<>>, ExpiresAt |-> 0],
     expiration |-> 0, err |-> NoErr, resp |-> NoResponse, rank |-> 0]

Init ==
    /\ now = StartTime
    /\ objects = Bucket
    /\ cache = EmptyCache
    /\ issued = EmptyCache
    /\ revoked = EmptyCache
    /\ last = Idle
    /\ inflight = [c \in Callers |-> NotCalling]

\* issued after a successful CreateShare
Issue(s3Path, secret, expiresAt, url) ==
    [k \in DOMAIN issued \cup {s3Path} |->
        IF k = s3Path
        THEN [Secret |-> secret, ExpiresAt |-> expiresAt, URL |-> url]
        ELSE issued[k]]

\* issued without the shares of the paths gone
Without(gone) == [k \in DOMAIN issued \ gone |-> issued[k]]

\* revoked once the shares of the paths gone have ended
Ended(gone) ==
    [k \in DOMAIN revoked \cup (gone \cap DOMAIN issued) |->
        IF k \in gone \cap DOMAIN issued THEN issued[k].Secret ELSE revoked[k]]

\* revoked after a successful CreateShare
Renewed(s3Path) == [k \in DOMAIN revoked \ {s3Path} |-> revoked[k]]

(***************************************************************************)
(* Operations.                                                             *)
(***************************************************************************)
\* the clock advances; the store drops the keys whose TTL has run out
Tick ==
    /\ last.op = "idle"
    /\ now < StartTime + MaxTicks
    /\ now' = now + 1
    /\ cache' = [k \in LiveKeys(cache, now + 1) |-> cache[k]]
    /\ issued' = Without({k \in DOMAIN issued : issued[k].ExpiresAt <= now + 1})
    /\ revoked' = Ended({k \in DOMAIN issued : issued[k].ExpiresAt <= now + 1})
    /\ UNCHANGED <<objects, last, inflight>>

\* a caller of the engine (the CLI) creates a share
DoCreateShare ==
    /\ last.op = "idle"
    /\ \E s3Path \in Paths, secret \in Secrets, expiresAt \in ExpiryChoices(now) :
       \E down \in {"none"} \cup
                {d \in {"s3", "redis"} :
                    CreateShare(cache, objects, now,
                                [S3Path |-> s3Path, Secret |-> secret,
                                 ExpiresAt |-> expiresAt], d = "s3", d = "redis")
                    # CreateShare(cache, objects, now,
                                  [S3Path |-> s3Path, Secret |-> secret,
                                   ExpiresAt |-> expiresAt], FALSE, FALSE)} :
        LET req == [S3Path |-> s3Path, Secret |-> secret, ExpiresAt |-> expiresAt]
            r == CreateShare(cache, objects, now, req, down = "s3", down = "redis")
        IN /\ cache' = r.cache
           /\ issued' = IF r.err = NoErr
                        THEN Issue(s3Path, secret, expiresAt, r.resp.URL)
                        ELSE issued
           /\ revoked' = IF r.err = NoErr THEN Renewed(s3Path) ELSE revoked
           /\ last' = Obs("CreateShare", req, down, r.err, r.resp, NoHTTP, r.calls, 0, 0, cache)
           /\ UNCHANGED <<now, objects, inflight>>

\* a caller of the engine validates a share
DoValidateShare ==
    /\ last.op = "idle"
    /\ \E s3Path \in Paths, secret \in Secrets :
       \E down \in {"none"} \cup
                {d \in {"redis"} :
                    ValidateShare(cache, now, s3Path, secret, TRUE)
                    # ValidateShare(cache, now, s3Path, secret, FALSE)} :
        LET r == ValidateShare(cache, now, s3Path, secret, down = "redis")
        IN /\ last' = Obs("ValidateShare", [S3Path |-> s3Path, Secret |-> secret], down,
                          r.err, NoResponse, NoHTTP, r.calls, 0, 0, cache)
           /\ cache' = r.cache
           /\ UNCHANGED <<now, objects, issued, revoked, inflight>>

\* a caller of the engine fetches an object
DoGetObject ==
    /\ last.op = "idle"
    /\ \E s3Path \in Paths :
       \E down \in {"none"} \cup
                {d \in {"s3"} :
                    GetObject(objects, s3Path, TRUE) # GetObject(objects, s3Path, FALSE)} :
        LET r == GetObject(objects, s3Path, down = "s3")
        IN /\ last' = Obs("GetObject", [S3Path |-> s3Path], down, r.err, NoResponse,
                          [NoHTTP EXCEPT !.body = [bytes |-> r.reader.body]],
                          r.calls, 0, 0, cache)
           /\ UNCHANGED <<now, objects, cache, issued, revoked, inflight>>

\* an operator revokes a share through the cache adapter
DoDelete ==
    /\ last.op = "idle"
    /\ \E s3Path \in DOMAIN Bucket, down \in {"none", "redis"} :
        LET r == CacheDelete(cache, generateCacheKey(s3Path), down = "redis")
        IN /\ cache' = r.cache
           /\ issued' = IF r.err = NoErr THEN Without({s3Path}) ELSE issued
           /\ revoked' = IF r.err = NoErr THEN Ended({s3Path}) ELSE revoked
           /\ last' = Obs("Delete", [S3Path |-> s3Path], down, r.err, NoResponse, NoHTTP,
                          <<"Delete">>, 0, 0, cache)
           /\ UNCHANGED <<now, objects, inflight>>

\* GET of a request path
DoHandleImage ==
    /\ last.op = "idle"
    /\ \E urlPath \in {LinkPath(d, s, p) : d \in DateChoices, s \in Secrets, p \in Paths}
                   \cup {RequestPath(issued[k].URL) : k \in DOMAIN issued}
                   \cup OtherRequestPaths :
       \E down \in {"none"} \cup
                {d \in Outages :
                    HandleImage(cache, objects, now, urlPath,
                                d = "redis", d = "s3", d = "client")
                    # HandleImage(cache, objects, now, urlPath, FALSE, FALSE, FALSE)} :
        LET r == HandleImage(cache, objects, now, urlPath,
                             down = "redis", down = "s3", down = "client")
        IN /\ last' = Obs("HandleImage", [url |-> urlPath], down, NoErr, NoResponse,
                          r.resp, r.calls, r.opens, r.closes, cache)
           /\ cache' = r.cache
           /\ UNCHANGED <<now, objects, issued, revoked, inflight>>

\* a request to /api/shares
DoHandleCreateShare ==
    /\ last.op = "idle"
    /\ \E request \in ShareRequests(now) :
       \E down \in {"none"} \cup
                {d \in {"s3", "redis"} :
                    HandleCreateShare(cache, objects, now, request.method, request.body,
                                      d = "s3", d = "redis")
                    # HandleCreateShare(cache, objects, now, request.method,
                                        request.body, FALSE, FALSE)} :
        LET r == HandleCreateShare(cache, objects, now, request.method, request.body,
                                   down = "s3", down = "redis")
        IN /\ cache' = r.cache
           /\ issued' = IF r.resp.status = StatusOK
                        THEN Issue(request.body.S3Path, request.body.Secret,
                                   r.resp.body.expires_at, r.resp.body.url)
                        ELSE issued
           /\ revoked' = IF r.resp.status = StatusOK
                         THEN Renewed(request.body.S3Path)
                         ELSE revoked
           /\ last' = Obs("HandleCreateShare", request, down,
                          r.err, NoResponse, r.resp, r.calls, 0, 0, cache)
           /\ UNCHANGED <<now, objects, inflight>>

\* a probe of /health or /ready through the server's routes, whatever the
\* backing services are doing at the time
DoProbe ==
    /\ last.op = "idle"
    /\ \E urlPath \in {HealthPath, ReadyPath}, down \in {"none", "s3", "redis"} :
        LET handler == Route(urlPath)
            resp == IF handler = "HandleHealth" THEN HandleHealth ELSE HandleReady
        IN last' = Obs(handler, [url |-> urlPath], down, NoErr, NoResponse, resp,
                       <<>>, 0, 0, cache)
    /\ UNCHANGED <<now, objects, cache, issued, revoked, inflight>>

\* another client of the bucket removes an object
ObjectRemoved ==
    /\ last.op = "idle"
    /\ \E key \in Volatile \cap DOMAIN objects :
        objects' = [k \in DOMAIN objects \ {key} |-> objects[k]]
    /\ UNCHANGED <<now, cache, issued, revoked, last, inflight>>

\* another client of the bucket stores an object
ObjectStored ==
    /\ last.op = "idle"
    /\ \E key \in Volatile \ DOMAIN objects :
        objects' = [k \in DOMAIN objects \cup {key} |-> Bucket[k]]
    /\ UNCHANGED <<now, cache, issued, revoked, last, inflight>>

\* the result reaches the caller and the next operation may start
Return ==
    /\ last.op # "idle"
    /\ last' = Idle
    /\ UNCHANGED <<now, objects, cache, issued, revoked, inflight>>

Next ==
    \/ Tick
    \/ Return
    \/ ObjectRemoved
    \/ ObjectStored
    \/ DoCreateShare
    \/ DoValidateShare
    \/ DoGetObject
    \/ DoDelete
    \/ DoHandleImage
    \/ DoHandleCreateShare
    \/ DoProbe

Spec == Init /\ [][Next]_vars

(***************************************************************************)
(* Concurrent CreateShare calls.  Each caller runs the statements of       *)
(* ShareService.CreateShare one adapter call or clock reading at a time,   *)
(* and the clock may advance between them.                                 *)
(***************************************************************************)
\* the paths and the expiry instants of the concurrent calls
RacePaths == {PathPhoto, PathMissing, PathRooted}
RaceExpiries(t) == {t + 1, t + TicksPerDay, t + (MaxAgeDays + 1) * TicksPerDay}

\* caller c at pc, the other fields as given
Calling(c, pc, req, expiration, err, resp, rank) ==
    [inflight EXCEPT ![c] = [pc |-> pc, req |-> req, expiration |-> expiration,
                             err |-> err, resp |-> resp, rank |-> rank]]

\* the number of cache writes applied so far
SetsApplied == Cardinality({c \in Callers : inflight[c].rank > 0})

\* caller c enters CreateShare: the path check
RaceBegin(c) ==
    /\ inflight[c].pc = "idle"
    /\ \E s3Path \in RacePaths, expiresAt \in RaceExpiries(now) :
        LET req == [S3Path |-> s3Path, Secret |-> SecretOf(c), ExpiresAt |-> expiresAt]
        IN inflight' = IF ~isValidS3Path(s3Path)
                       THEN Calling(c, "done", req, 0, ErrInvalidPath, NoResponse, 0)
                       ELSE Calling(c, "head", req, 0, NoErr, NoResponse, 0)
    /\ UNCHANGED <<now, objects, cache, issued, revoked, last>>

\* caller c asks the object store for the metadata
RaceHead(c) ==
    /\ inflight[c].pc = "head"
    /\ LET call == inflight[c]
           head == HeadObject(objects, call.req.S3Path, FALSE)
       IN inflight' = IF head.err # NoErr
                      THEN Calling(c, "done", call.req, 0,
                                   Wrap("object not found", head.err), NoResponse, 0)
                      ELSE Calling(c, "until", call.req, 0, NoErr, NoResponse, 0)
    /\ UNCHANGED <<now, objects, cache, issued, revoked, last>>

\* caller c reads the clock for time.Until(req.ExpiresAt)
RaceUntil(c) ==
    /\ inflight[c].pc = "until"
    /\ LET call == inflight[c]
           expiration == call.req.ExpiresAt - now
       IN inflight' = IF expiration <= 0
                      THEN Calling(c, "done", call.req, expiration,
                                   <<"expiration time must be in the future">>,
                                   NoResponse, 0)
                      ELSE Calling(c, "set", call.req, expiration, NoErr, NoResponse, 0)
    /\ UNCHANGED <<now, objects, cache, issued, revoked, last>>

\* caller c writes its secret to the cache and returns the response
RaceSet(c) ==
    /\ inflight[c].pc = "set"
    /\ LET call == inflight[c]
           set == CacheSet(cache, now, generateCacheKey(call.req.S3Path),
                           call.req.Secret, call.expiration, FALSE)
       IN /\ cache' = set.cache
          /\ inflight' =
                Calling(c, "done", call.req, call.expiration, set.err,
                        [URL |-> generateShareURL(call.req.S3Path, call.req.ExpiresAt),
                         ExpiresAt |-> call.req.ExpiresAt,
                         MaxAge |-> call.expiration],
                        SetsApplied + 1)
    /\ UNCHANGED <<now, objects, issued, revoked, last>>

RaceNext ==
    \/ Tick
    \/ \E c \in Callers : RaceBegin(c)
    \/ \E c \in Callers : RaceHead(c)
    \/ \E c \in Callers : RaceUntil(c)
    \/ \E c \in Callers : RaceSet(c)

RaceSpec == Init /\ [][RaceNext]_vars

(***************************************************************************)
(* A GET served statement by statement, while other clients create and     *)
(* delete shares, the bucket changes and the clock advances.               *)
(***************************************************************************)
Getters == {"g1"}

\* what a cache read saw under a key
NoEntry == [present |-> FALSE, value |-> <<>>]
EntryAt(c, t, key) ==
    IF key \in LiveKeys(c, t) THEN [present |-> TRUE, value |-> c[key].value] ELSE NoEntry

\* a GET not yet received
NotServing ==
    [pc |-> "idle", url |-> <<>>, seen |-> NoEntry, atFetch |-> NoEntry, status |-> 0]

\* request g at pc, the other fields as given
Serving(g, pc, url, seen, atFetch, status) ==
    [inflight EXCEPT ![g] = [pc |-> pc, url |-> url, seen |-> seen,
                             atFetch |-> atFetch, status |-> status]]

ServeInit ==
    /\ now = StartTime
    /\ objects = Bucket
    /\ cache = EmptyCache
    /\ issued = EmptyCache
    /\ revoked = EmptyCache
    /\ last = Idle
    /\ inflight = [g \in Getters |-> NotServing]

\* HandleImage up to the expiry check: routes, segments, date, clock
GetBegin(g) ==
    /\ inflight[g].pc = "idle"
    /\ \E urlPath \in {LinkPath(d, s, PathPhoto) : d \in DateChoices, s \in Secrets}
                   \cup {<<"/", "n", "o", "/", "r", "t">>} :
        LET parts == ImageParts(urlPath)
            expiresAt == parseDate(parts.dateStr)
        IN inflight' =
             IF HasPrefix(urlPath, ApiPrefix) \/ urlPath = HealthPath \/ urlPath = ReadyPath
                \/ parts.n < 5
             THEN Serving(g, "done", urlPath, NoEntry, NoEntry, StatusNotFound)
             ELSE IF ~expiresAt.ok
             THEN Serving(g, "done", urlPath, NoEntry, NoEntry, StatusBadRequest)
             ELSE IF After(now, expiresAt.t)
             THEN Serving(g, "done", urlPath, NoEntry, NoEntry, StatusForbidden)
             ELSE Serving(g, "validate", urlPath, NoEntry, NoEntry, 0)
    /\ UNCHANGED <<now, objects, cache, issued, revoked, last>>

\* HandleImage calls ValidateShare: the cache read
GetValidate(g) ==
    /\ inflight[g].pc = "validate"
    /\ LET parts == ImageParts(inflight[g].url)
           v == ValidateShare(cache, now, parts.s3Path, parts.secret, FALSE)
           seen == EntryAt(cache, now, generateCacheKey(parts.s3Path))
       IN /\ cache' = v.cache
          /\ inflight' =
                IF v.err = NoErr
                THEN Serving(g, "fetch", inflight[g].url, seen, NoEntry, 0)
                ELSE Serving(g, "done", inflight[g].url, seen, NoEntry,
                             IF v.err = ErrUnauthorized THEN StatusUnauthorized
                             ELSE IF v.err = ErrInvalidPath THEN StatusBadRequest
                             ELSE StatusInternalServerError)
    /\ UNCHANGED <<now, objects, issued, revoked, last>>

\* HandleImage calls GetObject and streams the object
GetFetch(g) ==
    /\ inflight[g].pc = "fetch"
    /\ LET parts == ImageParts(inflight[g].url)
           r == GetObject(objects, parts.s3Path, FALSE)
           atFetch == EntryAt(cache, now, generateCacheKey(parts.s3Path))
       IN inflight' = Serving(g, "done", inflight[g].url, inflight[g].seen, atFetch,
                              IF r.err # NoErr THEN StatusNotFound ELSE StatusOK)
    /\ UNCHANGED <<now, objects, cache, issued, revoked, last>>

\* another client creates a share
ServeShare ==
    /\ \E secret \in Secrets, expiresAt \in {now + 1, now + TicksPerDay} :
        cache' = CreateShare(cache, objects, now,
                             [S3Path |-> PathPhoto, Secret |-> secret,
                              ExpiresAt |-> expiresAt], FALSE, FALSE).cache
    /\ cache' # cache
    /\ UNCHANGED <<now, objects, issued, revoked, last, inflight>>

\* an operator deletes a share
ServeRevoke ==
    /\ generateCacheKey(PathPhoto) \in DOMAIN cache
    /\ cache' = CacheDelete(cache, generateCacheKey(PathPhoto), FALSE).cache
    /\ UNCHANGED <<now, objects, issued, revoked, last, inflight>>

ServeNext ==
    \/ Tick
    \/ ObjectRemoved
    \/ ObjectStored
    \/ ServeShare
    \/ ServeRevoke
    \/ \E g \in Getters : GetBegin(g)
    \/ \E g \in Getters : GetValidate(g)
    \/ \E g \in Getters : GetFetch(g)

ServeSpec == ServeInit /\ [][ServeNext]_vars

(***************************************************************************)
(* Path validation on its own: every object path of up to MaxPathLen       *)
(* characters over a letter, the dot and the separator is checked by       *)
(* isValidS3Path and shared by CreateShare, against a bucket that holds    *)
(* the object under the canonical spelling of the path, or under both the  *)
(* canonical spelling and the spelling of the request.                     *)
(***************************************************************************)
PathAlphabet == {"a", ".", SLASH}
PathUniverse == UNION {[1..n -> PathAlphabet] : n \in 0..MaxPathLen}

\* a bucket with one and the same object under each of the keys
BucketOf(keys) == [k \in keys |-> [contentType |-> "image/jpeg", size |-> 1024]]

PathInit ==
    /\ now = StartTime
    /\ cache = EmptyCache
    /\ issued = EmptyCache
    /\ revoked = EmptyCache
    /\ inflight = [c \in Callers |-> NotCalling]
    /\ \E s3Path \in PathUniverse :
        /\ objects \in {BucketOf({Clean(s3Path)}), BucketOf({Clean(s3Path), s3Path})}
        /\ last = [op |-> "path", req |-> [S3Path |-> s3Path]]

\* the path is checked
PathCheck ==
    /\ last.op = "path"
    /\ last' = [op |-> "isValidS3Path", req |-> last.req,
                ok |-> isValidS3Path(last.req.S3Path),
                clean |-> Clean(last.req.S3Path)]
    /\ UNCHANGED <<now, objects, cache, issued, revoked, inflight>>

\* the path is shared, then validated and fetched under its canonical
\* spelling
PathShare ==
    /\ last.op = "path"
    /\ LET req == [S3Path |-> last.req.S3Path, Secret |-> SecretA,
                   ExpiresAt |-> now + 1]
           r == CreateShare(cache, objects, now, req, FALSE, FALSE)
           v == ValidateShare(r.cache, now, Clean(req.S3Path), SecretA, FALSE)
       IN /\ cache' = r.cache
          /\ last' = [op |-> "CreateShare", req |-> req, err |-> r.err,
                      calls |-> r.calls, canonical |-> v.err]
    /\ UNCHANGED <<now, objects, issued, revoked, inflight>>

PathNext ==
    \/ PathCheck
    \/ PathShare

PathSpec == PathInit /\ [][PathNext]_vars

(***************************************************************************)
(* Properties.                                                             *)
(***************************************************************************)
\* the cache key of the path of the operation in last
LastKey == generateCacheKey(last.req.S3Path)

\* the request path of the GET in last is handled as a share link: it is
\* not one of the skipped routes and it has at least five segments
IsLinkRequest ==
    /\ last.op = "HandleImage"
    /\ ~(HasPrefix(last.req.url, ApiPrefix) \/ last.req.url \in {HealthPath, ReadyPath})
    /\ ImageParts(last.req.url).n >= 5

LastParts == ImageParts(last.req.url)
LastDate == ParseLayout(LastParts.dateStr)

\* the midnight that begins the day of the instant t
Midnight(t) == (t \div TicksPerDay) * TicksPerDay

\* C1 as stated: for a safe path, with the cache write not failing,
\* CreateShare succeeds iff the object exists and the expiry is after now.
C1_SucceedsIffExistsAndFuture ==
    (/\ last.op = "CreateShare"
     /\ isValidS3Path(last.req.S3Path)
     /\ last.down # "redis")
    => ((last.err = NoErr)
        <=> (last.req.S3Path \in DOMAIN objects /\ last.req.ExpiresAt > last.t))

\* C1 amended: for a safe path, with neither the object store's metadata
\* request nor the cache write failing, CreateShare succeeds iff the object
\* exists and the expiry is after now.
C1_SucceedsIffNoBackendFailure ==
    (/\ last.op = "CreateShare"
     /\ isValidS3Path(last.req.S3Path)
     /\ last.down = "none")
    => ((last.err = NoErr)
        <=> (last.req.S3Path \in DOMAIN objects /\ last.req.ExpiresAt > last.t))

C1_Witness ==
    /\ last.op = "CreateShare"
    /\ isValidS3Path(last.req.S3Path)
    /\ last.down = "none"
    /\ last.req.S3Path \in DOMAIN objects
    /\ last.req.ExpiresAt > last.t
    /\ last.err = NoErr

\* C2: the URL of a successful CreateShare(p, s, e), parsed as the router
\* parses a request path, yields the date of e, the secret s and the path p.
C2_UrlParsesBack ==
    (last.op = "CreateShare" /\ last.err = NoErr)
    => LET parts == ImageParts(RequestPath(last.share.URL))
       IN /\ parts.n >= 5
          /\ parseDate(parts.dateStr) = [ok |-> TRUE, t |-> Midnight(last.req.ExpiresAt)]
          /\ parts.secret = last.req.Secret
          /\ parts.s3Path = last.req.S3Path

\* C3: a GET of the URL of the standing share of an existing object, before
\* its expiry and with no backend failure, returns 200 with the object's
\* bytes and content type.
C3_MintedLinkIsServed ==
    (/\ last.op = "HandleImage"
     /\ last.down = "none"
     /\ \E p \in DOMAIN issued :
          /\ last.req.url = RequestPath(issued[p].URL)
          /\ last.t < issued[p].ExpiresAt
          /\ p \in DOMAIN objects)
    => \E p \in DOMAIN issued \cap DOMAIN objects :
          /\ last.req.url = RequestPath(issued[p].URL)
          /\ last.resp.status = StatusOK
          /\ last.resp.body = [bytes |-> p, complete |-> TRUE]
          /\ last.resp.header.ContentType = objects[p].contentType

\* C4: for a path with a parent-directory segment or a leading separator,
\* CreateShare, ValidateShare and GetObject fail with InvalidPath and call
\* no adapter.
C4_TraversalRejectedWithoutCalls ==
    (/\ last.op \in {"CreateShare", "ValidateShare", "GetObject"}
     /\ (HasParentSegment(last.req.S3Path) \/ HasPrefix(last.req.S3Path, <<SLASH>>)))
    => (last.err = ErrInvalidPath /\ last.calls = <<>>)

\* C5: for a safe path, ValidateShare succeeds only when the entry under
\* "image-auth:"+p exists and equals the presented secret; a missing entry
\* and a different secret both return Unauthorized, exactly what the same
\* call returns against an empty cache.
C5_MissAndMismatchAlike ==
    (last.op = "ValidateShare" /\ isValidS3Path(last.req.S3Path))
    => LET present == LastKey \in DOMAIN last.before
           matches == present /\ last.before[LastKey].value = last.req.Secret
       IN /\ (last.err = NoErr) => matches
          /\ (~matches /\ last.down = "none") => last.err = ErrUnauthorized
          /\ ~matches =>
                last.err = ValidateShare(EmptyCache, last.t, last.req.S3Path,
                                         last.req.Secret, last.down = "redis").err

C5_Witness ==
    /\ last.op = "ValidateShare"
    /\ isValidS3Path(last.req.S3Path)
    /\ LastKey \in DOMAIN last.before
    /\ last.before[LastKey].value # last.req.Secret
    /\ last.err = ErrUnauthorized

\* C6: the cache holds exactly one entry for each path with a standing
\* share and none for any other path; the entry carries the secret and the
\* expiry of the latest successful CreateShare, that secret validates and
\* every other secret is Unauthorized.
C6_OneLiveSecretPerPath ==
    /\ DOMAIN cache = {generateCacheKey(p) : p \in DOMAIN issued}
    /\ \A p \in DOMAIN issued :
          /\ cache[generateCacheKey(p)] =
                [value |-> issued[p].Secret, expireAt |-> issued[p].ExpiresAt]
          /\ \A s \in Secrets \cup {generateSecret(p, issued[p].ExpiresAt)} :
                ValidateShare(cache, now, p, s, FALSE).err =
                    IF s = issued[p].Secret THEN NoErr ELSE ErrUnauthorized

\* the second of two successful CreateShare calls for one path, with a
\* different secret
C6_Witness ==
    /\ last.op = "CreateShare"
    /\ last.err = NoErr
    /\ LastKey \in DOMAIN last.before
    /\ last.before[LastKey].value # last.req.Secret
    /\ last.before[LastKey].expireAt # last.req.ExpiresAt

\* C7: a share-link GET is answered 403 iff now is strictly after the
\* parsed date; at the parsed instant itself a safe path goes on to
\* ValidateShare, which reads the cache.
C7_ExpiredIffStrictlyAfter ==
    (IsLinkRequest /\ LastDate.ok)
    => /\ (last.resp.status = StatusForbidden) <=> (last.t > LastDate.t)
       /\ (last.t <= LastDate.t /\ isValidS3Path(LastParts.s3Path))
             => (last.calls # <<>> /\ last.calls[1] = "Get")

\* a GET at the very instant its date parses to
C7_Witness ==
    /\ IsLinkRequest
    /\ LastDate.ok
    /\ last.t = LastDate.t
    /\ last.resp.status = StatusOK

\* C8: while a path has no standing share (never shared, deleted, or run
\* out at the expiry of its last CreateShare) no ValidateShare for it
\* succeeds, each is Unauthorized when the cache answers, and no GET for
\* it is answered 200, whatever date the request path carries.
C8_NoEntryNoAccess ==
    /\ \A p \in Paths \ DOMAIN issued : isValidS3Path(p) =>
          \A s \in Secrets \cup {revoked[q] : q \in DOMAIN revoked}, f \in BOOLEAN :
              LET r == ValidateShare(cache, now, p, s, f)
              IN r.err # NoErr /\ (~f => r.err = ErrUnauthorized)
    /\ (last.op = "ValidateShare" /\ isValidS3Path(last.req.S3Path)
            /\ last.req.S3Path \notin DOMAIN issued)
          => (last.err # NoErr /\ (last.down = "none" => last.err = ErrUnauthorized))
    /\ (IsLinkRequest /\ LastParts.s3Path \notin DOMAIN issued)
          => last.resp.status # StatusOK

\* a GET for a share that has ended, with its secret and a date still ahead
C8_Witness ==
    /\ IsLinkRequest
    /\ LastParts.s3Path \in DOMAIN revoked
    /\ LastParts.secret = revoked[LastParts.s3Path]
    /\ LastDate.ok
    /\ LastDate.t > last.t
    /\ last.down = "none"
    /\ last.resp.status = StatusUnauthorized

\* C9: with no backend failure a share-link GET is answered 400 when the
\* date does not parse, else 403 when the link is expired, else 400 when
\* the object path is unsafe, else 401 when the secret is missing from the
\* cache or differs, else 404 when the object is not in the store, else 200.
C9_GetStatusCodes ==
    (IsLinkRequest /\ last.down = "none")
    => LET key == generateCacheKey(LastParts.s3Path)
       IN last.resp.status =
            IF ~LastDate.ok THEN StatusBadRequest
            ELSE IF last.t > LastDate.t THEN StatusForbidden
            ELSE IF ~isValidS3Path(LastParts.s3Path) THEN StatusBadRequest
            ELSE IF key \notin DOMAIN cache \/ cache[key].value # LastParts.secret
                 THEN StatusUnauthorized
            ELSE IF LastParts.s3Path \notin DOMAIN objects THEN StatusNotFound
            ELSE StatusOK

\* a validated GET whose object is no longer in the store
C9_Witness ==
    /\ IsLinkRequest
    /\ last.down = "none"
    /\ last.calls = <<"Get", "GetObject">>
    /\ last.resp.status = StatusNotFound

\* C10: a failed POST /api/shares is answered 400 when s3_path or secret
\* is missing or the object path is unsafe, 500 when a backend fails, and
\* its body has the fields error, code and message.
C10_PostFailureCodes ==
    (/\ last.op = "HandleCreateShare"
     /\ last.req.method = "POST"
     /\ last.req.body.decodes
     /\ last.resp.status # StatusOK)
    => /\ DOMAIN last.resp.body = {"error", "code", "message"}
       /\ (last.req.body.S3Path = <<>> \/ last.req.body.Secret = <<>>)
             => last.resp.status = StatusBadRequest
       /\ (last.req.body.S3Path # <<>> /\ last.req.body.Secret # <<>>
             /\ ~isValidS3Path(last.req.body.S3Path))
             => last.resp.status = StatusBadRequest
       /\ (last.calls # <<>> /\ last.down # "none"
             /\ Contains(last.err, <<IF last.down = "s3"
                                     THEN S3Unavailable[1]
                                     ELSE RedisUnavailable[1]>>))
             => last.resp.status = StatusInternalServerError

\* the request path of the GET in last lies under /api/
LastUnderApi ==
    Len(last.req.url) >= 5 /\ SubSeq(last.req.url, 1, 5) = <<"/", "a", "p", "i", "/">>

\* C11 as stated: a GET whose path has fewer than five segments, or whose
\* first three segments do not parse as a date, is answered 400.
C11_ShortOrBadDateIs400 ==
    (/\ last.op = "HandleImage"
     /\ (LastParts.n < 5 \/ ~LastDate.ok))
    => last.resp.status = StatusBadRequest

\* C11 amended: a GET outside /api/, /health and /ready is answered 404
\* when its path has fewer than five segments, and 400 "invalid date
\* format" when it has at least five and the first three do not parse as
\* a two-digit-year date.
C11_ShortIs404BadDateIs400 ==
    (last.op = "HandleImage" /\ ~LastUnderApi /\ last.req.url \notin {HealthPath, ReadyPath})
    => /\ LastParts.n < 5 => last.resp.status = StatusNotFound
       /\ (LastParts.n >= 5 /\ ~LastDate.ok)
             => last.resp = writeError("invalid date format", StatusBadRequest)

\* a GET with five segments whose month is not a month
C11_Witness ==
    /\ IsLinkRequest
    /\ ~LastDate.ok
    /\ LastParts.dateStr = <<"2", "5", "-", "1", "3", "-", "0", "1">>
    /\ last.resp.status = StatusBadRequest

\* C12: the image handler answers 404 and calls neither the engine nor an
\* adapter for every path under /api/, for /health and /ready, and for
\* every path with fewer than five segments.
C12_SkippedAndShortAre404 ==
    (/\ last.op = "HandleImage"
     /\ (LastUnderApi \/ last.req.url \in {HealthPath, ReadyPath} \/ LastParts.n < 5))
    => /\ last.resp = NotFound
       /\ last.calls = <<>>
       /\ last.closes = 0

\* a GET under /api/ with five segments
C12_Witness ==
    /\ last.op = "HandleImage"
    /\ LastUnderApi
    /\ LastParts.n >= 5
    /\ last.resp.status = StatusNotFound

\* C13: every reader the GET handler obtains is closed exactly once before
\* the handler returns, also when the copy to the response fails partway;
\* when GetObject returns an error no reader is obtained and none is closed.
C13_HandleClosedExactlyOnce ==
    (last.op = "HandleImage")
    => /\ last.closes = last.opens
       /\ last.opens <= 1
       /\ (last.opens = 1) <=> (last.resp.status = StatusOK)
       /\ (last.calls = <<"Get", "GetObject">> /\ last.resp.status = StatusNotFound)
             => (last.opens = 0 /\ last.closes = 0)

\* a GET whose copy to the response fails partway
C13_Witness ==
    /\ last.op = "HandleImage"
    /\ last.down = "client"
    /\ last.resp.status = StatusOK
    /\ ~last.resp.body.complete
    /\ last.opens = 1
    /\ last.closes = 1

C15_ProbesAlwaysOK ==
    /\ Route(HealthPath) = "HandleHealth"
    /\ Route(ReadyPath) = "HandleReady"
    /\ (last.op \in {"HandleHealth", "HandleReady"})
       => /\ last.resp.status = 200
          /\ last.resp.body =
                [status |-> IF last.req.url = HealthPath THEN "healthy" ELSE "ready"]
          /\ last.calls = <<>>
          /\ cache = last.before

\* a readiness probe while the cache is failing, a share stands and an
\* object has left the bucket
C15_Witness ==
    /\ last.op = "HandleReady"
    /\ last.down = "redis"
    /\ DOMAIN cache # {}
    /\ DOMAIN objects # DOMAIN Bucket
    /\ last.resp.status = 200

\* C16: when two concurrent CreateShare calls for one path with distinct
\* secrets have both returned success and a URL, then, while the entry is
\* alive, exactly one of the two secrets validates for the path: the
\* secret of the caller whose cache write was applied last.
C16_LastWriterWins ==
    LET a == inflight["c1"]
        b == inflight["c2"]
        p == a.req.S3Path
    IN (/\ a.pc = "done" /\ b.pc = "done"
        /\ a.err = NoErr /\ b.err = NoErr
        /\ b.req.S3Path = p
        /\ generateCacheKey(p) \in LiveKeys(cache, now))
       => /\ a.req.Secret # b.req.Secret
          /\ a.resp.URL # <<>> /\ b.resp.URL # <<>>
          /\ a.rank # b.rank
          /\ \A c \in Callers :
                (ValidateShare(cache, now, p, SecretOf(c), FALSE).err = NoErr)
                <=> (\A d \in Callers : inflight[d].rank <= inflight[c].rank)
          /\ \A c \in Callers :
                ValidateShare(cache, now, p, SecretOf(c), FALSE).err
                    \in {NoErr, ErrUnauthorized}

\* both calls succeeded for one path; c2 wrote first, c1 last, and c1's
\* secret is the one that validates
C16_Witness ==
    /\ inflight["c1"].pc = "done" /\ inflight["c2"].pc = "done"
    /\ inflight["c1"].err = NoErr /\ inflight["c2"].err = NoErr
    /\ inflight["c1"].req.S3Path = inflight["c2"].req.S3Path
    /\ inflight["c2"].rank = 1 /\ inflight["c1"].rank = 2
    /\ ValidateShare(cache, now, inflight["c1"].req.S3Path, SecretA, FALSE).err = NoErr
    /\ ValidateShare(cache, now, inflight["c1"].req.S3Path, SecretB, FALSE).err
          = ErrUnauthorized

\* C17: in a share-link GET the expiry decision follows from the date of
\* the request path and the clock alone and precedes every adapter call:
\* an expired date gets 403 "link expired" with no cache read and no
\* object-store call, whatever the secret, the path and the cache hold; the
\* checks run in the order segment count, date, expiry, ValidateShare,
\* GetObject.
C17_ExpiryBeforeAnyCall ==
    IsLinkRequest
    => /\ (LastDate.ok /\ last.t > LastDate.t)
             => (last.resp = writeError("link expired", StatusForbidden)
                 /\ last.calls = <<>>)
       /\ (last.resp.status = StatusForbidden) => (LastDate.ok /\ last.t > LastDate.t)
       /\ (last.resp.status = StatusForbidden)
             <=> (HandleImage(EmptyCache, Bucket, last.t, last.req.url,
                              FALSE, FALSE, FALSE).resp.status = StatusForbidden)
       /\ ~LastDate.ok => last.calls = <<>>
       /\ last.calls \in {<<>>, <<"Get">>, <<"Get", "GetObject">>}
       /\ (last.calls = <<>>)
             <=> (~LastDate.ok \/ last.t > LastDate.t \/ ~isValidS3Path(LastParts.s3Path))
       /\ (last.calls = <<"Get", "GetObject">>)
             => last.resp.status \in {StatusOK, StatusNotFound}

\* a GET with a date already past for a path whose share still stands in
\* the cache, with the stored secret
C17_Witness ==
    /\ IsLinkRequest
    /\ LastDate.ok
    /\ last.t > LastDate.t
    /\ generateCacheKey(LastParts.s3Path) \in DOMAIN cache
    /\ cache[generateCacheKey(LastParts.s3Path)].value = LastParts.secret
    /\ cache[generateCacheKey(LastParts.s3Path)].expireAt > last.t
    /\ last.resp.status = StatusForbidden
    /\ last.calls = <<>>

\* C18: a CreateShare that returns an error leaves the cache as it was.
\* The checks run in the order path safety, HeadObject, expiry (an expiry
\* equal to now is refused), cache write: an unsafe path makes no adapter
\* call, and Set is called only after the first three have passed.
C18_FailureLeavesCache ==
    (last.op = "CreateShare")
    => LET safe == isValidS3Path(last.req.S3Path)
           exists == last.req.S3Path \in DOMAIN objects /\ last.down # "s3"
           future == last.req.ExpiresAt > last.t
       IN /\ last.err # NoErr => cache = last.before
          /\ ~safe => (last.err = ErrInvalidPath /\ last.calls = <<>>)
          /\ (safe /\ ~exists)
                => (last.err # NoErr /\ last.err[1] = "object not found"
                    /\ last.calls = <<"HeadObject">>)
          /\ (safe /\ exists /\ ~future)
                => (last.err = <<"expiration time must be in the future">>
                    /\ last.calls = <<"HeadObject">>)
          /\ (safe /\ exists /\ future) => last.calls = <<"HeadObject", "Set">>
          /\ (last.err # NoErr /\ last.calls = <<"HeadObject", "Set">>)
                => last.err[1] = "failed to store share in cache"

\* a CreateShare with an expiry equal to now, for an object in the bucket,
\* refused while the cache holds a share
C18_Witness ==
    /\ last.op = "CreateShare"
    /\ last.req.ExpiresAt = last.t
    /\ last.req.S3Path \in DOMAIN objects
    /\ last.err = <<"expiration time must be in the future">>
    /\ DOMAIN last.before # {}
    /\ cache = last.before

\* C19: after a successful CreateShare(p, s, e) the cache holds s under
\* "image-auth:" + p with a time to live of e - now, the duration returned
\* as MaxAge; every other key is as it was; the response's ExpiresAt is e.
C19_SuccessWritesOneKey ==
    (last.op = "CreateShare" /\ last.err = NoErr)
    => LET key == <<"i", "m", "a", "g", "e", "-", "a", "u", "t", "h", ":">>
                    \o last.req.S3Path
       IN /\ DOMAIN cache = DOMAIN last.before \cup {key}
          /\ cache[key].value = last.req.Secret
          /\ cache[key].expireAt - last.t = last.req.ExpiresAt - last.t
          /\ cache[key].expireAt - last.t = last.share.MaxAge
          /\ \A k \in DOMAIN last.before \ {key} : cache[k] = last.before[k]
          /\ last.share.ExpiresAt = last.req.ExpiresAt

\* a successful CreateShare while the cache holds the share of another path
C19_Witness ==
    /\ last.op = "CreateShare"
    /\ last.err = NoErr
    /\ \E k \in DOMAIN last.before :
          /\ k # generateCacheKey(last.req.S3Path)
          /\ cache[k] = last.before[k]
    /\ generateCacheKey(last.req.S3Path) \notin DOMAIN last.before
    /\ cache[generateCacheKey(last.req.S3Path)].value = last.req.Secret

\* C20: a link is not used up: ValidateShare, GetObject and a GET leave the
\* cache as it was and call neither Set nor Delete, so a ValidateShare or
\* a GET that has succeeded succeeds again when repeated.
C20_ReadsLeaveCache ==
    (last.op \in {"ValidateShare", "GetObject", "HandleImage"})
    => /\ cache = last.before
       /\ \A i \in 1..Len(last.calls) : last.calls[i] \in {"Get", "GetObject"}
       /\ (last.op = "ValidateShare" /\ last.err = NoErr)
             => ValidateShare(cache, now, last.req.S3Path, last.req.Secret,
                              FALSE).err = NoErr
       /\ (last.op = "HandleImage" /\ last.resp.status = StatusOK)
             => HandleImage(cache, objects, now, last.req.url,
                            FALSE, FALSE, FALSE).resp.status = StatusOK

\* a GET that was answered 200
C20_Witness ==
    /\ last.op = "HandleImage"
    /\ last.resp.status = StatusOK
    /\ last.resp.body.complete
    /\ generateCacheKey(LastParts.s3Path) \in DOMAIN cache
    /\ cache = last.before

\* the number of calls of the adapter operation name in last
LastCount(name) == Cardinality({i \in 1..Len(last.calls) : last.calls[i] = name})

\* C21: the engine never retries.  One CreateShare makes at most one
\* HeadObject and at most one Set, one ValidateShare at most one Get and no
\* object-store call, one GetObject at most one object-store GetObject and
\* no cache call; an adapter failure ends the operation at that call and
\* is returned, wrapped, to the caller.
C21_NoRetry ==
    /\ (last.op = "CreateShare")
          => /\ last.calls \in {<<>>, <<"HeadObject">>, <<"HeadObject", "Set">>}
             /\ LastCount("HeadObject") <= 1 /\ LastCount("Set") <= 1
             /\ (last.down = "s3")
                   => (last.calls = <<"HeadObject">>
                       /\ last.err = Wrap("object not found",
                                          Wrap("failed to head object from S3",
                                               S3Unavailable)))
             /\ (last.down = "redis")
                   => (last.calls = <<"HeadObject", "Set">>
                       /\ last.err = Wrap("failed to store share in cache",
                                          Wrap("failed to set key in Redis",
                                               RedisUnavailable)))
    /\ (last.op = "ValidateShare")
          => /\ last.calls \in {<<>>, <<"Get">>}
             /\ (last.down = "redis")
                   => last.err = Wrap("failed to validate share",
                                      Wrap("failed to get key from Redis",
                                           RedisUnavailable))
    /\ (last.op = "GetObject")
          => /\ last.calls \in {<<>>, <<"GetObject">>}
             /\ (last.down = "s3")
                   => last.err = Wrap("failed to get object",
                                      Wrap("failed to get object from S3",
                                           S3Unavailable))
    /\ (last.op \in {"CreateShare", "ValidateShare", "GetObject"} /\ last.down # "none")
          => last.err # NoErr

\* a CreateShare whose cache write fails, after its one HeadObject
C21_Witness ==
    /\ last.op = "CreateShare"
    /\ last.down = "redis"
    /\ last.calls = <<"HeadObject", "Set">>
    /\ last.err # NoErr
    /\ Contains(last.err, RedisUnavailable)

\* C22: when the cache read of ValidateShare fails otherwise than with
\* NotFound, ValidateShare returns a cache-read failure, neither
\* Unauthorized nor success, and the GET is answered 500 without any
\* object-store call.
C22_CacheReadFailureIs500 ==
    /\ (last.op = "ValidateShare" /\ last.down = "redis")
          => /\ last.err \notin {NoErr, ErrUnauthorized}
             /\ last.err[1] = "failed to validate share"
             /\ Contains(last.err, RedisUnavailable)
    /\ (IsLinkRequest /\ last.down = "redis")
          => /\ last.resp = writeError("internal error", StatusInternalServerError)
             /\ last.calls = <<"Get">>
             /\ last.opens = 0

\* a GET that would have been served, its cache read failing
C22_Witness ==
    /\ IsLinkRequest
    /\ last.down = "redis"
    /\ generateCacheKey(LastParts.s3Path) \in DOMAIN cache
    /\ cache[generateCacheKey(LastParts.s3Path)].value = LastParts.secret
    /\ LastParts.s3Path \in DOMAIN objects
    /\ last.resp.status = StatusInternalServerError

\* C23: when the object store fails while the object of an authorized GET
\* is fetched, the GET is answered 500; 404 is answered only when the
\* object is not in the store.
C23_FetchFailureIs500 ==
    (IsLinkRequest /\ last.calls = <<"Get", "GetObject">>)
    => /\ (last.down = "s3") => last.resp.status = StatusInternalServerError
       /\ (last.resp.status = StatusNotFound) => LastParts.s3Path \notin DOMAIN objects

\* C24: isValidS3Path rejects a path exactly when its canonical form
\* starts with a separator, or has a parent-directory segment, or is empty
\* or the current-directory marker; every other path is accepted, a path
\* with two consecutive dots inside a segment name included.
C24_RejectsExactlyUnsafePaths ==
    (last.op = "isValidS3Path")
    => (~last.ok
        <=> \/ HasPrefix(last.clean, <<SLASH>>)
            \/ HasParentSegment(last.clean)
            \/ last.clean = <<>>
            \/ last.clean = DOT)

\* C25: every path the engine hands to an adapter is canonical: a
\* CreateShare for an accepted path finds the object under the canonical
\* spelling and writes the cache key of the canonical spelling, so the
\* share validates under the canonical spelling too.
C25_AdapterPathsCanonical ==
    (last.op = "CreateShare" /\ isValidS3Path(last.req.S3Path))
    => /\ last.err = NoErr
       /\ DOMAIN cache = {CacheKeyPrefix \o Clean(last.req.S3Path)}
       /\ last.canonical = NoErr

\* C26: a GET is authorized at one point, the cache read of ValidateShare:
\* a GET answered 200 saw, at that read, an entry for its path equal to its
\* secret; once validated it is served whenever the object is in the
\* bucket at the fetch, also when the entry has been overwritten or
\* deleted between the read and the fetch.
C26_AuthorizedAtTheCacheRead ==
    \A g \in Getters :
        LET r == inflight[g]
            parts == ImageParts(r.url)
        IN /\ (r.pc = "fetch" \/ (r.pc = "done" /\ r.status = StatusOK))
                 => (r.seen.present /\ r.seen.value = parts.secret)
           /\ (r.pc = "done" /\ r.seen.present /\ r.seen.value = parts.secret)
                 => r.status \in {StatusOK, StatusNotFound}
           /\ (r.pc = "done" /\ r.status = StatusUnauthorized)
                 => (~r.seen.present \/ r.seen.value # parts.secret)

\* a GET answered 200 although, between its cache read and its fetch, the
\* entry was deleted or overwritten with another secret
C26_Witness ==
    \E g \in Getters :
        /\ inflight[g].pc = "done"
        /\ inflight[g].status = StatusOK
        /\ inflight[g].seen.present
        /\ inflight[g].atFetch # inflight[g].seen

\* C27: no successful CreateShare returns a MaxAge, or leaves a cache
\* entry with a time to live, longer than MaxAgeDays days.
C27_LifetimeWithinMaxAgeDays ==
    /\ \A c \in Callers :
          (inflight[c].pc = "done" /\ inflight[c].err = NoErr)
          => inflight[c].resp.MaxAge <= MaxAgeDays * TicksPerDay
    /\ \A k \in DOMAIN cache : cache[k].expireAt - now <= MaxAgeDays * TicksPerDay

====
